---- MODULE Spec2Model ----
(***************************************************************************)
(* Model of eldermarxPDF: the Flask endpoint /generate-pdf in its two      *)
(* variants (src/api.py returns the PDF, src/app.py uploads it to Supabase *)
(* Storage), the report builder create_pdf and the two cell helpers        *)
(* format_value and sanitize_text.                                         *)
(*                                                                         *)
(* Python strings are sequences of code points (naturals).  Python values  *)
(* are tagged records; an int is a sign and a sequence of decimal digits,  *)
(* because Python ints are unbounded.                                      *)
(***************************************************************************)
EXTENDS Integers, Sequences, FiniteSets, TLC

VARIABLES
    variant,    \* which module serves the route: "api" or "app"
    req,        \* per request: body, position in generate_pdf, locals, response, event log
    storage,    \* the storage bucket: path -> request whose bytes are stored there
    now,        \* the wall clock read by datetime.now(), in whole seconds
    arg,        \* pure-function harness: the call and its arguments
    ret         \* pure-function harness: what the call returned

vars == <<variant, req, storage, now, arg, ret>>

-----------------------------------------------------------------------------
(* Bounds of the model *)

MaxLen == 3          \* longest enumerated short string
MaxRows == 2         \* longest enumerated row sequence
NReq == 2            \* requests that may be in flight together
MaxTick == 1         \* clock steps taken during a run

(* Program constants *)

AsciiMax == 127      \* \x7F, upper end of the class kept by the regex
MaxDisplay == 100    \* len(value) > 100
Keep == 97           \* value[:97]
LandscapeOver == 5   \* len(fields) > 5

-----------------------------------------------------------------------------
(* Strings *)

SP == <<32>>
DASH == <<45>>
DOTS == <<46, 46, 46>>
SIM == <<83, 105, 109>>
NAO == <<78, 227, 111>>
EMPTY == <<>>

S_id == <<105, 100>>
S_name == <<110, 97, 109, 101>>
S_x == <<120>>
S_Ann == <<65, 110, 110>>
S_Zoe == <<90, 111, 233>>
S_users == <<117, 115, 101, 114, 115>>
S_cafe == <<99, 97, 102, 233>>
S_None == <<78, 111, 110, 101>>
S_True == <<84, 114, 117, 101>>
S_False == <<70, 97, 108, 115, 101>>
S_inf == <<105, 110, 102>>
S_1p5 == <<49, 46, 53>>
S_maxfloat == <<45, 49, 46, 55, 57, 55, 54, 57, 51, 49, 51, 52, 56, 54, 50, 51, 49, 53, 55, 101, 43, 51, 48, 56>>

RECURSIVE SeqsUpTo(_, _)
SeqsUpTo(S, n) ==
    IF n = 0 THEN {<<>>}
    ELSE LET shorter == SeqsUpTo(S, n - 1)
         IN  shorter \cup {Append(s, c) : s \in {t \in shorter : Len(t) = n - 1}, c \in S}

Take(s, n) == IF Len(s) <= n THEN s ELSE SubSeq(s, 1, n)

(* str.upper() on the characters the model uses: a-z and the Latin-1 lower case *)
UpperChar(c) ==
    IF (c >= 97 /\ c <= 122) \/ (c >= 224 /\ c <= 254 /\ c # 247) THEN c - 32 ELSE c

Upper(s) == [i \in 1..Len(s) |-> UpperChar(s[i])]

-----------------------------------------------------------------------------
(* Python values *)

VNone == [tag |-> "null"]
VBool(b) == [tag |-> "bool", b |-> b]
VInt(neg, digits) == [tag |-> "int", neg |-> neg, digits |-> digits]
VFloat(text) == [tag |-> "float", text |-> text]
VStr(s) == [tag |-> "str", s |-> s]
VList(items) == [tag |-> "list", items |-> items]

DigitChars(digits) == [i \in 1..Len(digits) |-> 48 + digits[i]]

(* str(value) *)
PyStr(value) ==
    CASE value.tag = "null" -> S_None
      [] value.tag = "bool" -> IF value.b THEN S_True ELSE S_False
      [] value.tag = "int" -> (IF value.neg THEN DASH ELSE EMPTY) \o DigitChars(value.digits)
      [] value.tag = "float" -> value.text
      [] value.tag = "str" -> value.s
      [] OTHER -> <<91, 93>>

-----------------------------------------------------------------------------
(* sanitize_text *)

RECURSIVE SkipRun(_)
SkipRun(s) ==
    IF s # <<>> /\ Head(s) > AsciiMax THEN SkipRun(Tail(s)) ELSE s

(* A faulty substitution: the class without its "+", one space per character *)
RECURSIVE ReSubEach(_)
ReSubEach(s) ==
    IF s = <<>> THEN <<>>
    ELSE IF Head(s) > AsciiMax THEN SP \o ReSubEach(Tail(s))
    ELSE <<Head(s)>> \o ReSubEach(Tail(s))

(* re.sub(r'[^\x00-\x7F]+', ' ', text) *)
RECURSIVE ReSub(_)
ReSub(s) ==
    IF s = <<>> THEN <<>>
    ELSE IF Head(s) > AsciiMax THEN SP \o ReSub(SkipRun(Tail(s)))
    ELSE <<Head(s)>> \o ReSub(Tail(s))

sanitize_text(text) ==
    IF text = VNone THEN EMPTY ELSE ReSub(PyStr(text))

-----------------------------------------------------------------------------
(* format_value *)

format_value(value) ==
    CASE value.tag = "null" -> DASH
      [] value.tag = "bool" -> IF value.b THEN SIM ELSE NAO
      [] value.tag \in {"int", "float"} -> PyStr(value)
      [] value.tag = "str" ->
            IF Len(value.s) > MaxDisplay THEN Take(value.s, Keep) \o DOTS ELSE value.s
      [] OTHER -> PyStr(value)

-----------------------------------------------------------------------------
(* datetime.now().strftime(...): the clock starts at 2024-01-01 00:00:00 *)

TwoDigits(n) == <<48 + ((n \div 10) % 10), 48 + (n % 10)>>

(* '%Y%m%d_%H%M%S' *)
StrfSecond(t) ==
    <<50, 48, 50, 52, 48, 49, 48, 49, 95, 48, 48>>
        \o TwoDigits((t.sec \div 60) % 60) \o TwoDigits(t.sec % 60)

(* '%d/%m/%Y às %H:%M' *)
StrfMinute(t) ==
    <<48, 49, 47, 48, 49, 47, 50, 48, 50, 52, 32, 224, 115, 32, 48, 48, 58>>
        \o TwoDigits((t.sec \div 60) % 60)

-----------------------------------------------------------------------------
(* create_pdf *)

Paragraph(text, style) == [kind |-> "Paragraph", text |-> text, style |-> style]
Spacer(height) == [kind |-> "Spacer", height |-> height]
Table(table_data, ncols) == [kind |-> "Table", data |-> table_data, cols |-> ncols]

T_Relatorio == <<82, 101, 108, 97, 116, 243, 114, 105, 111, 58, 32>>
T_Gerado == <<71, 101, 114, 97, 100, 111, 32, 101, 109, 58, 32>>
T_Nenhum == <<78, 101, 110, 104, 117, 109, 32, 100, 97, 100, 111, 32, 101, 110, 99, 111, 110, 116, 114, 97, 100, 111, 46>>
T_Total == <<84, 111, 116, 97, 108, 32, 100, 101, 32, 114, 101, 103, 105, 115, 116, 114, 111, 115, 58, 32>>

RECURSIVE NatDigits(_)
NatDigits(n) == IF n < 10 THEN <<n>> ELSE Append(NatDigits(n \div 10), n % 10)

(* row.get(field, "-") : a row maps string keys to values *)
RowGet(row, field) ==
    IF field.tag = "str" /\ field.s \in DOMAIN row THEN row[field.s] ELSE VStr(DASH)

(* A faulty cell: sanitized first, formatted second *)
CellSwapped(row, field) ==
    LET value == RowGet(row, field)
    IN  format_value(VStr(sanitize_text(value)))

(* lines 97-100: one cell of the body *)
Cell(row, field) ==
    LET value == RowGet(row, field)
        formatted_value == format_value(value)
    IN  sanitize_text(VStr(formatted_value))

(* A faulty layout: the table is appended whether or not there are rows *)
LayoutAlwaysTable(data, fields) ==
    LET headers == [j \in 1..Len(fields) |-> Upper(sanitize_text(fields[j]))]
        body == [i \in 1..Len(data) |-> [j \in 1..Len(fields) |-> Cell(data[i], fields[j])]]
    IN  <<Table(<<headers>> \o body, Len(fields)),
          Spacer("1cm"),
          Paragraph(T_Total \o DigitChars(NatDigits(Len(data))), "CustomSubtitle")>>

(* lines 85-140: the block that follows the title, subtitle and spacer *)
Layout(data, fields) ==
    IF data = <<>>
    THEN <<Paragraph(T_Nenhum, "Normal")>>
    ELSE LET headers == [j \in 1..Len(fields) |-> Upper(sanitize_text(fields[j]))]
             body == [i \in 1..Len(data) |->
                         [j \in 1..Len(fields) |-> Cell(data[i], fields[j])]]
         IN  <<Table(<<headers>> \o body, Len(fields)),
               Spacer("1cm"),
               Paragraph(T_Total \o DigitChars(NatDigits(Len(data))), "CustomSubtitle")>>

create_pdf(data, table_name, fields, t) ==
    [pagesize |-> IF Len(fields) > LandscapeOver THEN "landscape(A4)" ELSE "A4",
     elements |->
        <<Paragraph(T_Relatorio \o sanitize_text(table_name), "CustomTitle"),
          Paragraph(T_Gerado \o StrfMinute(t), "CustomSubtitle"),
          Spacer("0.5cm")>>
        \o Layout(data, fields)]

-----------------------------------------------------------------------------
(* Inputs of the pure functions *)

Alphabet == {9, 32, 97, 233}
ShortStrs == SeqsUpTo(Alphabet, MaxLen)
LongStr(n) == [i \in 1..n |-> IF i % 7 = 0 THEN 233 ELSE 97 + (i % 26)]
LongStrs == {LongStr(n) : n \in {MaxDisplay - 1, MaxDisplay, MaxDisplay + 1, MaxDisplay + 4}}
Pow10(n) == [i \in 1..(n + 1) |-> IF i = 1 THEN 1 ELSE 0]
SampleInts ==
    {VInt(FALSE, <<0>>)}
    \cup {VInt(neg, d) : neg \in BOOLEAN,
                         d \in {<<1>>, <<4, 2>>, Pow10(MaxDisplay - 1), Pow10(MaxDisplay + 3)}}
SampleFloats == {VFloat(S_1p5), VFloat(S_inf), VFloat(S_maxfloat)}
Scalars ==
    {VNone, VBool(TRUE), VBool(FALSE)} \cup SampleInts \cup SampleFloats
    \cup {VStr(s) : s \in ShortStrs \cup LongStrs \cup {DASH, DOTS, SIM, NAO}}
SampleValues == Scalars \cup {VList(<<>>)}

Absent == [tag |-> "absent"]
MkRow(i, n) ==
    [k \in (IF i = Absent THEN {} ELSE {S_id}) \cup (IF n = Absent THEN {} ELSE {S_name})
        |-> IF k = S_id THEN i ELSE n]
SampleRows ==
    {MkRow(i, n) : i \in {Absent, VInt(FALSE, <<1>>), VInt(FALSE, <<2>>)},
                   n \in {Absent, VNone, VBool(FALSE), VStr(S_Ann), VStr(S_Zoe)}}
ExampleData ==
    <<MkRow(VInt(FALSE, <<1>>), VStr(S_Ann)), MkRow(VInt(FALSE, <<2>>), VNone)>>
SampleData == SeqsUpTo(SampleRows, MaxRows)
SampleFields ==
    {<<VStr(S_id), VStr(S_name)>>, <<VStr(S_name)>>, <<VStr(S_name), VStr(S_x), VStr(S_id)>>}
SampleTables == {VStr(S_users), VStr(S_cafe)}

(* sanitize_text is applied to the sample values whose text is shorter than half
   the display limit; its behaviour does not depend on the length *)
PureCalls ==
    {[fn |-> "format_value", value |-> v] : v \in SampleValues}
    \cup {[fn |-> "sanitize_text", text |-> v] :
             v \in {w \in SampleValues : Len(PyStr(w)) < MaxDisplay \div 2}}
    \cup {[fn |-> "create_pdf", data |-> d, table_name |-> t, fields |-> f] :
             d \in SampleData, t \in SampleTables, f \in SampleFields}

NotCalled == [called |-> FALSE]
Returned(v) == [called |-> TRUE, value |-> v]
Clock0 == [sec |-> 0]

CallFormatValue ==
    /\ arg.fn = "format_value" /\ ret = NotCalled
    /\ ret' = Returned(format_value(arg.value))
    /\ UNCHANGED <<variant, req, storage, now, arg>>

CallSanitizeText ==
    /\ arg.fn = "sanitize_text" /\ ret = NotCalled
    /\ ret' = Returned(sanitize_text(arg.text))
    /\ UNCHANGED <<variant, req, storage, now, arg>>

CallCreatePdf ==
    /\ arg.fn = "create_pdf" /\ ret = NotCalled
    /\ ret' = Returned(create_pdf(arg.data, arg.table_name, arg.fields, now))
    /\ UNCHANGED <<variant, req, storage, now, arg>>

InitPure ==
    /\ variant = "api"
    /\ req = <<>>
    /\ storage = <<>>
    /\ now = Clock0
    /\ arg \in PureCalls
    /\ ret = NotCalled

NextPure == CallFormatValue \/ CallSanitizeText \/ CallCreatePdf

SpecPure == InitPure /\ [][NextPure]_vars

-----------------------------------------------------------------------------
(* generate_pdf: request bodies *)

S_slash_f == <<47, 102, 47>>
S_url == <<104, 116, 116, 112, 115, 58, 47, 47, 120>>
S_k == <<107>>
S_b == <<98>>

RequiredApi == <<"table_name", "fields", "supabase_url", "anon_key">>
RequiredApp == <<"table_name", "fields", "supabase_url", "anon_key", "bucket_name">>
required_fields(v) == IF v = "api" THEN RequiredApi ELSE RequiredApp

RequiredKeys == {RequiredApp[i] : i \in DOMAIN RequiredApp}
GoodFields == VList(<<VStr(S_id), VStr(S_name)>>)
Obj(fields, extra) ==
    [type |-> "object",
     obj |-> extra @@ [k \in {"table_name", "fields", "supabase_url", "anon_key", "bucket_name"} |->
                CASE k = "table_name" -> VStr(S_users)
                  [] k = "fields" -> fields
                  [] k = "supabase_url" -> VStr(S_url)
                  [] k = "anon_key" -> VStr(S_k)
                  [] OTHER -> VStr(S_b)]]
Without(b, key) ==
    [type |-> "object", obj |-> [k \in (DOMAIN b.obj) \ {key} |-> b.obj[k]]]
NoExtra == [k \in {} |-> VNone]
Folder(s) == [k \in {"folder"} |-> VStr(s)]

Bodies ==
    {[type |-> "null"],
     [type |-> "string", s |-> S_x],
     [type |-> "array", items |-> [i \in DOMAIN RequiredApp |-> RequiredApp[i]]]}
    \cup {Obj(f, NoExtra) : f \in {GoodFields, VList(<<>>), VList(<<VInt(FALSE, <<1>>)>>),
                                    VStr(S_id)}}
    \cup {Obj(GoodFields, Folder(s)) : s \in {S_slash_f}}
    \cup {Without(Obj(GoodFields, NoExtra), k) : k \in RequiredKeys}
    \cup {Without(Without(Obj(GoodFields, NoExtra), "fields"), "anon_key")}

(* `key in data`: membership of a dict, a list or a str; None and numbers raise *)
RaisesOnIn(b) == b.type \in {"null", "number"}
In(key, b) ==
    CASE b.type = "object" -> key \in DOMAIN b.obj
      [] b.type = "array" -> \E i \in DOMAIN b.items : b.items[i] = key
      [] OTHER -> FALSE

-----------------------------------------------------------------------------
(* generate_pdf: one request *)

NoResp == [status |-> 0, kind |-> "none"]
ErrorResp(status, prefix, detail) ==
    [status |-> status, kind |-> "error", error |-> [prefix |-> prefix, detail |-> detail]]

Idle ==
    [pc |-> "IDLE", body |-> [type |-> "null"], log |-> <<>>, table_data |-> <<>>,
     pdf |-> <<>>, path |-> <<>>, resp |-> NoResp, failedAt |-> "", raised |-> "", conc |-> {}]

InFlight(q) == req[q].pc \notin {"IDLE", "RESPONDED", "FAILED"}

(* The request ends with an error response *)
Fail(rq, r, phase, events, status, prefix, detail, exc) ==
    [rq EXCEPT ![r].pc = "FAILED",
                ![r].log = @ \o events \o <<"FAILED">>,
                ![r].resp = ErrorResp(status, prefix, detail),
                ![r].failedAt = phase,
                ![r].raised = exc]

Min(S) == CHOOSE i \in S : \A j \in S : i <= j
IsNonEmptyList(fields) == fields.tag = "list" /\ Len(fields.items) # 0

(* A faulty validation: the check of "fields" is missing *)
ValidateBodyNoFieldsCheck(v, b) ==
    LET required == required_fields(v)
        missing == {i \in DOMAIN required : ~In(required[i], b)}
    IN  IF RaisesOnIn(b)
        THEN [ok |-> FALSE, status |-> 500, prefix |-> "Erro interno: ",
              detail |-> "TypeError", exc |-> "TypeError"]
        ELSE IF missing # {}
        THEN [ok |-> FALSE, status |-> 400, prefix |-> "Campo obrigatorio ausente: ",
              detail |-> required[Min(missing)], exc |-> ""]
        ELSE IF b.type # "object"
        THEN [ok |-> FALSE, status |-> 500, prefix |-> "Erro interno: ",
              detail |-> "TypeError", exc |-> "TypeError"]
        ELSE [ok |-> TRUE]

(* lines 150-166 of api.py, 132-148 of app.py: the outcome of validation (the
   messages are written here without their accents) *)
ValidateBody(v, b) ==
    LET required == required_fields(v)
        missing == {i \in DOMAIN required : ~In(required[i], b)}
    IN  IF RaisesOnIn(b)
        THEN [ok |-> FALSE, status |-> 500, prefix |-> "Erro interno: ",
              detail |-> "TypeError", exc |-> "TypeError"]
        ELSE IF missing # {}
        THEN [ok |-> FALSE, status |-> 400, prefix |-> "Campo obrigatorio ausente: ",
              detail |-> required[Min(missing)], exc |-> ""]
        ELSE IF b.type # "object"
        THEN [ok |-> FALSE, status |-> 500, prefix |-> "Erro interno: ",
              detail |-> "TypeError", exc |-> "TypeError"]
        ELSE IF ~IsNonEmptyList(b.obj["fields"])
        THEN [ok |-> FALSE, status |-> 400, prefix |-> "",
              detail |-> "O campo \"fields\" deve ser uma lista nao vazia", exc |-> ""]
        ELSE [ok |-> TRUE]

(* lines 150-166 of api.py, 132-148 of app.py: a request arrives and is validated;
   requests are numbered in the order of their arrival *)
Receive(r) ==
    /\ req[r].pc = "IDLE"
    /\ \A q \in 1..(r - 1) : req[q].pc # "IDLE"
    /\ \E b \in Bodies :
        LET out == ValidateBody(variant, b)
            received == [req EXCEPT ![r].body = b, ![r].log = <<"RECEIVED">>,
                                    ![r].conc = {p \in DOMAIN req : InFlight(p)}]
            handled == IF out.ok
                       THEN [received EXCEPT ![r].pc = "VALIDATED",
                                             ![r].log = Append(@, "VALIDATED")]
                       ELSE Fail(received, r, "validation", <<>>, out.status, out.prefix,
                                 out.detail, out.exc)
        IN  req' = [q \in DOMAIN req |->
                      IF q # r /\ InFlight(q) /\ out.ok
                      THEN [handled[q] EXCEPT !.conc = @ \cup {r}]
                      ELSE handled[q]]
    /\ UNCHANGED <<variant, storage, now, arg, ret>>

FetchResults == {ExampleData}
AllStr(items) == \A i \in DOMAIN items : items[i].tag = "str"
Messages == {"connection refused"}

(* A faulty fetch: the except clause of create_client does not return *)
FetchIgnoringConnectError(r) ==
    /\ req[r].pc = "VALIDATED"
    /\ \E connected \in BOOLEAN, data \in FetchResults :
        req' = [req EXCEPT ![r].pc = "FETCHED",
                           ![r].log = @ \o (IF connected THEN <<"create_client">>
                                            ELSE <<"create_client", "raise">>)
                                        \o <<"select", "FETCHED">>,
                           ![r].table_data = data]
    /\ UNCHANGED <<variant, storage, now, arg, ret>>

(* lines 168-179 of api.py, 150-161 of app.py *)
Fetch(r) ==
    /\ req[r].pc = "VALIDATED"
    /\ LET fields == req[r].body.obj["fields"].items
       IN  \/ \E e \in Messages :
                req' = Fail(req, r, "connect", <<"create_client", "raise">>, 400,
                            "Erro ao conectar com Supabase: ", e, e)
           \/ /\ ~AllStr(fields)
              /\ req' = Fail(req, r, "fetch", <<"create_client">>, 400,
                             "Erro ao buscar dados: ", "TypeError", "TypeError")
           \/ /\ AllStr(fields)
              /\ \E e \in Messages :
                    req' = Fail(req, r, "fetch", <<"create_client", "select", "raise">>, 400,
                                "Erro ao buscar dados: ", e, e)
           \/ /\ AllStr(fields)
              /\ \E data \in FetchResults :
                    req' = [req EXCEPT ![r].pc = "FETCHED",
                                       ![r].log = @ \o <<"create_client", "select", "FETCHED">>,
                                       ![r].table_data = data]
    /\ UNCHANGED <<variant, storage, now, arg, ret>>

(* line 182 of api.py, 164 of app.py; a failure of the rendering library reaches
   the outer except clause *)
Render(r) ==
    /\ req[r].pc = "FETCHED"
    /\ LET b == req[r].body.obj
       IN  \/ req' = [req EXCEPT
                        ![r].pc = "RENDERED",
                        ![r].log = @ \o <<"create_pdf", "RENDERED">>,
                        ![r].pdf = create_pdf(req[r].table_data, b["table_name"],
                                              b["fields"].items, now)]
           \/ \E e \in {"LayoutError"} :
                req' = Fail(req, r, "render", <<"create_pdf", "raise">>, 500, "Erro interno: ", e, e)
    /\ UNCHANGED <<variant, storage, now, arg, ret>>

PDF_EXT == <<46, 112, 100, 102>>
Filename(table_name, t) == PyStr(table_name) \o <<95>> \o StrfSecond(t) \o PDF_EXT

(* lines 185-191 of api.py *)
SendFile(r) ==
    /\ variant = "api"
    /\ req[r].pc = "RENDERED"
    /\ req' = [req EXCEPT
                 ![r].pc = "RESPONDED",
                 ![r].log = Append(@, "RESPONDED"),
                 ![r].resp = [status |-> 200, kind |-> "file",
                              download_name |-> Filename(req[r].body.obj["table_name"], now),
                              file |-> req[r].pdf]]
    /\ UNCHANGED <<variant, storage, now, arg, ret>>

(* str.strip('/') *)
RECURSIVE LStrip(_)
LStrip(s) == IF s # <<>> /\ Head(s) = 47 THEN LStrip(Tail(s)) ELSE s
RECURSIVE RStrip(_)
RStrip(s) == IF s # <<>> /\ s[Len(s)] = 47 THEN RStrip(SubSeq(s, 1, Len(s) - 1)) ELSE s
Strip(s) == RStrip(LStrip(s))

(* lines 145 and 166-175 of app.py *)
FilePath(b, t) ==
    LET folder == IF "folder" \in DOMAIN b THEN b["folder"].s ELSE EMPTY
        filename == Filename(b["table_name"], t)
    IN  IF folder # EMPTY THEN Strip(folder) \o <<47>> \o filename ELSE filename

(* lines 177-200 of app.py.  The bucket is outside the repository: an upload to a
   path that already holds a file is either rejected or replaces the file. *)
Upload(r) ==
    /\ variant = "app"
    /\ req[r].pc = "RENDERED"
    /\ LET b == req[r].body.obj
           file_path == FilePath(b, now)
           stored == (file_path :> r) @@ storage
           uploading == [req EXCEPT ![r].path = file_path]
           done == [uploading EXCEPT
                      ![r].pc = "RESPONDED",
                      ![r].log = @ \o <<"upload", "RESPONDED">>,
                      ![r].resp = [status |-> 200, kind |-> "json", success |-> TRUE,
                                   filename |-> Filename(b["table_name"], now),
                                   path |-> file_path,
                                   records_count |-> Len(req[r].table_data)]]
       IN  \/ \E e \in Messages :
                /\ req' = Fail(uploading, r, "upload", <<"upload", "raise">>, 500,
                               "Erro ao fazer upload do PDF: ", e, e)
                /\ UNCHANGED storage
           \/ /\ file_path \in DOMAIN storage
              /\ req' = Fail(uploading, r, "upload", <<"upload", "raise">>, 500,
                             "Erro ao fazer upload do PDF: ", "Duplicate", "Duplicate")
              /\ UNCHANGED storage
           \/ /\ req' = done
              /\ storage' = stored
    /\ UNCHANGED <<variant, now, arg, ret>>

(* time passes between the steps of the requests *)
Tick ==
    /\ now.sec < MaxTick
    /\ now' = [now EXCEPT !.sec = @ + 1]
    /\ UNCHANGED <<variant, req, storage, arg, ret>>

Init ==
    /\ variant \in {"api", "app"}
    /\ req = [r \in 1..NReq |-> Idle]
    /\ storage = <<>>
    /\ now = Clock0
    /\ arg = [fn |-> "none"]
    /\ ret = NotCalled

Next ==
    \/ \E r \in 1..NReq : Receive(r)
    \/ \E r \in 1..NReq : Fetch(r)
    \/ \E r \in 1..NReq : Render(r)
    \/ \E r \in 1..NReq : SendFile(r)
    \/ \E r \in 1..NReq : Upload(r)
    \/ Tick

Spec == Init /\ [][Next]_vars

-----------------------------------------------------------------------------
(* Properties of generate_pdf *)

Canon(v) ==
    <<"RECEIVED", "VALIDATED", "create_client", "select", "FETCHED", "create_pdf", "RENDERED">>
        \o (IF v = "app" THEN <<"upload">> ELSE <<>>) \o <<"RESPONDED">>
Calls == {"create_client", "select", "create_pdf", "upload"}
IsPrefix(p, s) == Len(p) <= Len(s) /\ SubSeq(s, 1, Len(p)) = p
Last(s) == s[Len(s)]
Front(s) == SubSeq(s, 1, Len(s) - 1)
NoCalls(log) == \A i \in DOMAIN log : log[i] \notin Calls

(* a log that ends in FAILED: a prefix of the canonical order, possibly ending
   in a call that raised, and nothing after the failure *)
FailedLog(log, v) ==
    /\ Len(log) >= 2
    /\ Last(log) = "FAILED"
    /\ LET upto == Front(log)
           core == IF Last(upto) = "raise" THEN Front(upto) ELSE upto
       IN  /\ core # <<>>
           /\ IsPrefix(core, Canon(v))
           /\ Last(upto) = "raise" => Last(core) \in Calls
           /\ Last(core) # "RESPONDED"

(* C1: every request advances RECEIVED, VALIDATED, FETCHED, RENDERED, RESPONDED in
   that order; create_client and select are called only after validation passed,
   create_pdf only after the fetch succeeded, the upload only after rendering
   succeeded; a success response follows the whole chain; a failure ends the
   request with an error response and nothing runs after it. *)
C1_StageOrder ==
    \A r \in DOMAIN req :
        LET q == req[r]
            canon == Canon(variant)
        IN  /\ q.pc = "IDLE" <=> q.log = <<>>
            /\ q.pc = "VALIDATED" => q.log = SubSeq(canon, 1, 2)
            /\ q.pc = "FETCHED" => q.log = SubSeq(canon, 1, 5)
            /\ q.pc = "RENDERED" => q.log = SubSeq(canon, 1, 7)
            /\ q.pc = "RESPONDED" =>
                  (q.log = canon /\ q.resp.status = 200 /\ q.resp.kind \in {"file", "json"})
            /\ q.pc = "FAILED" =>
                  (FailedLog(q.log, variant) /\ q.resp.kind = "error"
                     /\ q.resp.status \in {400, 500})
            /\ q.pc \notin {"RESPONDED", "FAILED"} => q.resp = NoResp
            /\ q.pc \in {"IDLE", "VALIDATED", "FETCHED", "RENDERED", "RESPONDED", "FAILED"}

C1_Witness ==
    \E r, q \in DOMAIN req :
        /\ req[r].pc = "FAILED"
        /\ req[r].log = <<"RECEIVED", "VALIDATED", "create_client", "select", "raise", "FAILED">>
        /\ req[q].pc = "RESPONDED"

MissingKeys(v, b) ==
    {k \in {required_fields(v)[i] : i \in DOMAIN required_fields(v)} : k \notin DOMAIN b.obj}

(* C2: a request whose JSON object lacks a required key, or whose fields value
   is an empty list, is answered 400 with a JSON error (naming a missing key, or
   the fields list), and no collaborator is called for it. *)
C2_MissingKeyIs400 ==
    \A r \in DOMAIN req :
        LET q == req[r]
            b == q.body
        IN  (q.pc # "IDLE" /\ b.type = "object"
                /\ (MissingKeys(variant, b) # {} \/ b.obj["fields"] = VList(<<>>)))
            =>  /\ q.pc = "FAILED"
                /\ q.resp.kind = "error"
                /\ q.resp.status = 400
                /\ NoCalls(q.log)
                /\ IF MissingKeys(variant, b) # {}
                   THEN q.resp.error.detail \in MissingKeys(variant, b)
                   ELSE q.resp.error.detail = "O campo \"fields\" deve ser uma lista nao vazia"

C2_Witness ==
    \E r, q \in DOMAIN req :
        /\ req[r].pc = "FAILED"
        /\ req[r].body.type = "object"
        /\ "fields" \notin DOMAIN req[r].body.obj
        /\ req[r].resp.error.detail = "fields"
        /\ req[q].pc = "FAILED"
        /\ req[q].body = Obj(VList(<<>>), NoExtra)

Malformed(v, b) ==
    \/ b.type # "object"
    \/ MissingKeys(v, b) # {}
    \/ b.obj["fields"].tag # "list"
    \/ b.obj["fields"].items = <<>>
    \/ ~AllStr(b.obj["fields"].items)

(* C3: a request with missing or malformed fields (a body that is null or not an
   object, fields not a list, fields with non-string elements) fails in
   validation with 400, before any collaborator call, never with 500. *)
C3_MalformedIs400 ==
    \A r \in DOMAIN req :
        (req[r].pc # "IDLE" /\ Malformed(variant, req[r].body))
        =>  /\ req[r].pc = "FAILED"
            /\ req[r].failedAt = "validation"
            /\ req[r].resp.status = 400
            /\ NoCalls(req[r].log)

(* C4: a failed request returns {error: message} with 400 when the failure is in
   validation, connect or fetch and 500 when it is in rendering or upload; a
   collaborator's exception message is part of the error string. *)
C4_StatusByPhase ==
    \A r \in DOMAIN req :
        req[r].pc = "FAILED"
        =>  /\ req[r].resp.kind = "error"
            /\ req[r].resp.status =
                  IF req[r].failedAt \in {"validation", "connect", "fetch"} THEN 400 ELSE 500
            /\ req[r].raised # "" => req[r].resp.error.detail = req[r].raised

(* C5: concurrent requests do not interfere: no upload fails because a request
   in flight at the same time stored a file at the same path, and no stored file
   is replaced by that of a request that was in flight at the same time. *)
C5_Independent ==
    \A r \in DOMAIN req :
        /\ (req[r].pc = "FAILED" /\ req[r].raised = "Duplicate")
              => storage[req[r].path] \notin req[r].conc
        /\ (req[r].pc = "RESPONDED" /\ variant = "app")
              => storage[req[r].path] \notin req[r].conc

-----------------------------------------------------------------------------
(* Properties of create_pdf, format_value and sanitize_text *)

PdfReturned == arg.fn = "create_pdf" /\ ret.called
TablesOf(elements) == {i \in DOMAIN elements : elements[i].kind = "Table"}
IsAscii(s) == \A i \in DOMAIN s : s[i] <= AsciiMax

ExampleTable ==
    <<<<<<73, 68>>, <<78, 65, 77, 69>>>>, <<<<49>>, S_Ann>>, <<<<50>>, DASH>>>>

(* C6: for N > 0 rows and K fields the document holds a table whose first row is
   the upper-cased sanitized field names and whose N body rows, in input order,
   have K cells each, cell j of row i being sanitize_text(format_value(v)) for
   the row's value v of field j, and '-' when the row lacks the field; the footer
   reports N; the users example gives ID/NAME, 1/Ann, 2/-. *)
C6_TableContents ==
    (PdfReturned /\ arg.data # <<>>) =>
        LET elements == ret.value.elements
            data == arg.data
            fields == arg.fields
        IN  /\ \E t \in DOMAIN elements :
                /\ elements[t].kind = "Table"
                /\ LET td == elements[t].data
                   IN  /\ Len(td) = Len(data) + 1
                       /\ Len(td[1]) = Len(fields)
                       /\ \A j \in DOMAIN fields :
                            td[1][j] = Upper(sanitize_text(fields[j]))
                       /\ \A i \in DOMAIN data :
                            /\ Len(td[i + 1]) = Len(fields)
                            /\ \A j \in DOMAIN fields :
                                 td[i + 1][j] =
                                    IF fields[j].s \in DOMAIN data[i]
                                    THEN sanitize_text(VStr(format_value(data[i][fields[j].s])))
                                    ELSE DASH
                       /\ (data = ExampleData /\ fields = <<VStr(S_id), VStr(S_name)>>)
                            => td = ExampleTable
            /\ elements[Len(elements)] =
                    Paragraph(T_Total \o DigitChars(NatDigits(Len(data))), "CustomSubtitle")

C6_Witness ==
    /\ PdfReturned
    /\ Len(arg.data) = 2
    /\ \E i \in DOMAIN arg.data, j, k \in DOMAIN arg.fields :
            /\ arg.fields[j].s \notin DOMAIN arg.data[i]
            /\ arg.fields[k].s \in DOMAIN arg.data[i]
            /\ arg.data[i][arg.fields[k].s] = VNone

(* C7: with no rows the document holds the 'Nenhum dado encontrado.' paragraph
   and no table; with rows it holds exactly one table and no such paragraph; the
   title and the generation subtitle are the first two elements in both cases. *)
C7_NoDataOrTable ==
    PdfReturned =>
        LET elements == ret.value.elements
            nodata == {i \in DOMAIN elements : elements[i] = Paragraph(T_Nenhum, "Normal")}
        IN  /\ elements[1] =
                    Paragraph(T_Relatorio \o sanitize_text(arg.table_name), "CustomTitle")
            /\ elements[2].kind = "Paragraph"
            /\ elements[2].style = "CustomSubtitle"
            /\ Take(elements[2].text, Len(T_Gerado)) = T_Gerado
            /\ \A i \in TablesOf(elements) \cup nodata : i > 2
            /\ arg.data = <<>> => (nodata # {} /\ TablesOf(elements) = {})
            /\ arg.data # <<>> => (nodata = {} /\ Cardinality(TablesOf(elements)) = 1)

C7_Witness == PdfReturned /\ arg.data = <<>> /\ Len(ret.value.elements) = 4

(* C8: for every scalar input format_value returns a string of at most
   MaxDisplay + 3 characters; a string longer than MaxDisplay becomes its first
   MaxDisplay - 3 characters followed by '...', a shorter one is unchanged. *)
C8_FormatBounded ==
    (arg.fn = "format_value" /\ ret.called /\ arg.value \in Scalars) =>
        /\ Len(ret.value) <= MaxDisplay + 3
        /\ arg.value.tag = "str" =>
              ret.value = IF Len(arg.value.s) > MaxDisplay
                          THEN Take(arg.value.s, MaxDisplay - 3) \o DOTS
                          ELSE arg.value.s

(* The output of a sanitizer that keeps the characters Conforming accepts and
   puts one space for each maximal run of the others: position i of the input is
   emitted when it conforms or starts a run. *)
SanitizedAs(Conforming(_), s, out) ==
    LET emitted == {i \in DOMAIN s : Conforming(s[i]) \/ i = 1 \/ Conforming(s[i - 1])}
        rank(i) == Cardinality({j \in emitted : j <= i})
    IN  /\ Len(out) = Cardinality(emitted)
        /\ \A i \in emitted : out[rank(i)] = IF Conforming(s[i]) THEN s[i] ELSE 32

Printable(c) == c >= 32 /\ c < AsciiMax
SevenBit(c) == c <= AsciiMax
SanitizeReturned == arg.fn = "sanitize_text" /\ ret.called

(* C9 as stated: sanitize_text returns only printable 7-bit characters (no
   control character, nothing above 0x7F), each maximal run of other characters
   replaced by one space, the rest kept in order; null gives the empty string. *)
C9_PrintableOnly ==
    SanitizeReturned =>
        /\ \A i \in DOMAIN ret.value : Printable(ret.value[i])
        /\ arg.text = VNone => ret.value = EMPTY
        /\ arg.text # VNone => SanitizedAs(Printable, PyStr(arg.text), ret.value)

(* C9 as amended: sanitize_text returns only 7-bit characters 0x00-0x7F, control
   characters included; each maximal run of characters above 0x7F is replaced by
   one space, the 7-bit characters are kept in order; null gives the empty
   string. *)
C9_SevenBitOnly ==
    SanitizeReturned =>
        /\ \A i \in DOMAIN ret.value : SevenBit(ret.value[i])
        /\ arg.text = VNone => ret.value = EMPTY
        /\ arg.text # VNone => SanitizedAs(SevenBit, PyStr(arg.text), ret.value)

C9_Witness ==
    /\ SanitizeReturned
    /\ arg.text = VStr(<<9, 233, 233>>)
    /\ ret.value = <<9, 32>>

(* C10: in a rendered cell the formatter's output is unchanged by the sanitizer
   whenever the value is null, a boolean, a number or a 7-bit string; false is
   rendered as the token the formatter emits for it. *)
C10_TokensSurvive ==
    PdfReturned =>
        \A t \in TablesOf(ret.value.elements) :
            \A i \in DOMAIN arg.data, j \in DOMAIN arg.fields :
                LET key == arg.fields[j].s
                    v == arg.data[i][key]
                IN  (key \in DOMAIN arg.data[i] /\ (v.tag = "str" => IsAscii(v.s)))
                        => ret.value.elements[t].data[i + 1][j] = format_value(v)

====
